---- MODULE Spec2Model ----
(***************************************************************************)
(* A model of new-hw-3.py: the Field/Phone/Birthday value objects, Record, *)
(* AddressBook, the command handlers wrapped by input_error, and the       *)
(* read-dispatch-print loop of main().                                     *)
(*                                                                         *)
(* Strings are sequences of one-character strings, so that str.lower(),    *)
(* len(), str.isdigit() and strptime() are computed, not assumed.          *)
(* Record and Phone are objects with identity.  A Record object is either  *)
(* an entry of the book (named by its key) or the one the caller holds in  *)
(* its variable r; r may also name an entry of the book, after             *)
(* add_record(r).  Neither class defines __eq__, so `x in list` is an      *)
(* identity test; add_phone and edit_phone are handed Phone objects just   *)
(* made, so no Phone is in two lists, and a Phone that a list holds is     *)
(* named by the record and its index in the list.                          *)
(***************************************************************************)
EXTENDS Integers, Sequences, FiniteSets, TLC

VARIABLES data, r, result, pc, line, printed

vars == <<data, r, result, pc, line, printed>>

(***************************************************************************)
(* Bounds of the model.                                                    *)
(***************************************************************************)
\* Phone objects held by the lists of all records
MaxPhoneObjs == 2

(***************************************************************************)
(* Characters and strings.                                                 *)
(***************************************************************************)
LowerAlpha == <<"a","b","c","d","e","f","g","h","i","j","k","l","m",
                "n","o","p","q","r","s","t","u","v","w","x","y","z">>

UpperAlpha == <<"A","B","C","D","E","F","G","H","I","J","K","L","M",
                "N","O","P","Q","R","S","T","U","V","W","X","Y","Z">>

AsciiDigits == <<"0","1","2","3","4","5","6","7","8","9">>

\* "sup2" stands for the one character U+00B2 (superscript two), a
\* character of Unicode category No for which str.isdigit() is true.
SuperscriptTwo == "sup2"

\* str.lower() on one character
CharLower(c) ==
    IF \E i \in DOMAIN UpperAlpha : UpperAlpha[i] = c
    THEN LowerAlpha[CHOOSE i \in DOMAIN UpperAlpha : UpperAlpha[i] = c]
    ELSE c

\* str.lower()
StrLower(s) == [i \in 1..Len(s) |-> CharLower(s[i])]

IsAsciiDigit(c) == \E i \in DOMAIN AsciiDigits : AsciiDigits[i] = c

\* str.isdigit() on one character
CharIsDigit(c) == IsAsciiDigit(c) \/ c = SuperscriptTwo

\* str.isdigit(): false on the empty string
StrIsDigit(s) == Len(s) > 0 /\ \A i \in 1..Len(s) : CharIsDigit(s[i])

DigitVal(c) == (CHOOSE i \in DOMAIN AsciiDigits : AsciiDigits[i] = c) - 1

RECURSIVE DecimalVal(_)
DecimalVal(s) ==
    IF Len(s) = 0 THEN 0
    ELSE 10 * DecimalVal(SubSeq(s, 1, Len(s) - 1)) + DigitVal(s[Len(s)])

(***************************************************************************)
(* Phone.validate_format                                                   *)
(***************************************************************************)
PhoneLen == 10

PhoneValidateFormat(value) == Len(value) = PhoneLen /\ StrIsDigit(value)

(***************************************************************************)
(* Calendar dates: datetime.strptime(value, "%d.%m.%Y"), date ordinals.    *)
(***************************************************************************)
IsLeap(y) == y % 4 = 0 /\ (y % 100 # 0 \/ y % 400 = 0)

DaysInMonthTable == <<31, 28, 31, 30, 31, 30, 31, 31, 30, 31, 30, 31>>

DaysInMonth(y, m) == IF m = 2 /\ IsLeap(y) THEN 29 ELSE DaysInMonthTable[m]

RECURSIVE DaysBeforeMonth(_, _)
DaysBeforeMonth(y, m) ==
    IF m = 1 THEN 0 ELSE DaysBeforeMonth(y, m - 1) + DaysInMonth(y, m - 1)

DaysBeforeYear(y) ==
    LET p == y - 1 IN p * 365 + (p \div 4) - (p \div 100) + (p \div 400)

\* date.toordinal(): dates compare as their ordinals do
Ordinal(d) == DaysBeforeYear(d.year) + DaysBeforeMonth(d.year, d.month) + d.day

NoDate == [year |-> 0, month |-> 0, day |-> 0]

AllAsciiDigits(s) == \A i \in 1..Len(s) : IsAsciiDigit(s[i])

\* The date strptime(value, "%d.%m.%Y") returns, NoDate where it raises
\* ValueError.  %d and %m take one or two digits, %Y exactly four.
Strptime(value) ==
    LET fits(a, b) ==
            /\ Len(value) = a + b + 6
            /\ value[a + 1] = "."
            /\ value[a + b + 2] = "."
            /\ AllAsciiDigits(SubSeq(value, 1, a))
            /\ AllAsciiDigits(SubSeq(value, a + 2, a + b + 1))
            /\ AllAsciiDigits(SubSeq(value, a + b + 3, a + b + 6))
        splits == {ab \in {1, 2} \X {1, 2} : fits(ab[1], ab[2])}
    IN  IF splits = {} THEN NoDate
        ELSE LET ab == CHOOSE x \in splits : TRUE
                 a  == ab[1]
                 b  == ab[2]
                 dd == DecimalVal(SubSeq(value, 1, a))
                 mm == DecimalVal(SubSeq(value, a + 2, a + b + 1))
                 yy == DecimalVal(SubSeq(value, a + b + 3, a + b + 6))
             IN  IF /\ mm \in 1..12
                    /\ yy >= 1
                    /\ dd >= 1
                    /\ dd <= DaysInMonth(yy, mm)
                 THEN [year |-> yy, month |-> mm, day |-> dd]
                 ELSE NoDate

\* Birthday.validate_format
BirthdayValidateFormat(value) == Strptime(value) # NoDate

(***************************************************************************)
(* Objects.                                                                *)
(***************************************************************************)
\* Python's None; a validated birthday value is never the empty string
None == <<>>

NoExc == "none"

\* where a Record object is: held by the caller alone, or an entry of the book
PlaceCaller == [in |-> "caller", key |-> <<>>]
PlaceBook(key) == [in |-> "book", key |-> key]
Nowhere == [in |-> "nowhere", key |-> <<>>]

\* Phone(value) just constructed: no list holds it
FreshPhone(value) == [cls |-> "Phone", of |-> Nowhere, at |-> 0, value |-> value]

\* the Phone object at index i of the phones list of the record at `place`
HeldPhone(place, i, value) ==
    [cls |-> "Phone", of |-> place, at |-> i, value |-> value]

\* an argument that is not a Phone or a Birthday (a bare str)
BareStr(value) == [cls |-> "str", of |-> Nowhere, at |-> 0, value |-> value]

\* Birthday(value)
BirthdayObj(value) ==
    [cls |-> "Birthday", of |-> Nowhere, at |-> 0, value |-> value]

\* Record.__init__
NewRecord(name) == [name |-> name, phones |-> <<>>, birthday |-> None]

RetNone == [kind |-> "none"]
RetText(t) == [kind |-> "text", text |-> t]
RetRecord(place) == [kind |-> "record", place |-> place]
RetValue(v) == [kind |-> "value", value |-> v]
RetList(items) == [kind |-> "list", items |-> items]

(***************************************************************************)
(* Record: each method is given the place of self and the object, and      *)
(* leaves the object, the exception raised (NoExc if none) and the value   *)
(* returned.                                                               *)
(***************************************************************************)
RecReturn(rec, ret) == [rec |-> rec, exc |-> NoExc, msg |-> "", ret |-> ret]

RecRaise(rec, exc, msg) == [rec |-> rec, exc |-> exc, msg |-> msg, ret |-> RetNone]

\* `obj in self.phones`, for objects without __eq__: identity
InList(obj, self, list) == obj.of = self /\ obj.at \in 1..Len(list)

\* list.index(obj)
IndexOf(obj, list) == obj.at

RecordAddPhone(self, rec, phone) ==
    IF phone.cls = "Phone" /\ PhoneValidateFormat(phone.value)
    THEN RecReturn([rec EXCEPT !.phones = Append(rec.phones, phone.value)],
                   RetNone)
    ELSE RecRaise(rec, "ValueError", "Invalid phone number format.")

RecordAddBirthday(self, rec, birthday) ==
    IF birthday.cls = "Birthday" /\ BirthdayValidateFormat(birthday.value)
    THEN RecReturn([rec EXCEPT !.birthday = birthday.value], RetNone)
    ELSE RecRaise(rec, "ValueError", "Invalid birthday format.")

RecordRemovePhone(self, rec, phone) ==
    IF InList(phone, self, rec.phones)
    THEN LET i == IndexOf(phone, rec.phones) IN
         RecReturn([rec EXCEPT !.phones =
                        SubSeq(rec.phones, 1, i - 1)
                            \o SubSeq(rec.phones, i + 1, Len(rec.phones))],
                   RetNone)
    ELSE RecRaise(rec, "ValueError", "Phone number not found in the record.")

RecordEditPhone(self, rec, old_phone, new_phone) ==
    IF InList(old_phone, self, rec.phones)
    THEN LET index == IndexOf(old_phone, rec.phones) IN
         RecReturn([rec EXCEPT !.phones[index] = new_phone.value], RetNone)
    ELSE RecRaise(rec, "ValueError", "Phone number not found in the record.")

RecordFindPhone(self, rec, phone) ==
    IF InList(phone, self, rec.phones)
    THEN RecReturn(rec, RetValue(phone.value))
    ELSE RecRaise(rec, "ValueError", "Phone number not found in the record.")

RECURSIVE Join(_, _)
\* sep.join(str(p) for p in items)
Join(items, sep) ==
    IF Len(items) = 0 THEN <<>>
    ELSE IF Len(items) = 1 THEN items[1]
    ELSE items[1] \o sep \o Join(Tail(items), sep)

\* Record.__str__
RecordStr(rec) ==
    [head |-> "Contact name: ",
     name |-> rec.name,
     mid |-> ", phones: ",
     phone_list |-> Join(rec.phones, <<";", " ">>),
     birthday_info |-> IF rec.birthday # None
                       THEN <<", Birthday: ", rec.birthday>>
                       ELSE <<>>]

(***************************************************************************)
(* AddressBook: self.data is a dict, which keeps insertion order.  A call  *)
(* works on the state st = [data, r] and leaves the state, the exception   *)
(* raised and the value returned.                                          *)
(***************************************************************************)
State(d, rr) == [data |-> d, r |-> rr]

Return(st, ret) ==
    [data |-> st.data, r |-> st.r, exc |-> NoExc, msg |-> "", ret |-> ret]

Raise(st, exc, msg) ==
    [data |-> st.data, r |-> st.r, exc |-> exc, msg |-> msg, ret |-> RetNone]

StateOf(o) == State(o.data, o.r)

\* the caller's variable r: unset, a Record no entry holds, or the Record
\* that is the entry under `key`
NoRecord == [name |-> <<>>, phones |-> <<>>, birthday |-> None]
Unset == [kind |-> "unset", rec |-> NoRecord, key |-> <<>>]
Loose(rec) == [kind |-> "loose", rec |-> rec, key |-> <<>>]
Stored(key) == [kind |-> "stored", rec |-> NoRecord, key |-> key]

\* key in self.data
DictHas(d, key) == \E i \in 1..Len(d) : d[i].key = key

DictIndex(d, key) == CHOOSE i \in 1..Len(d) : d[i].key = key

\* self.data[key]
DictGet(d, key) == d[DictIndex(d, key)].rec

\* self.data[key] = rec: an existing key keeps its position
DictSet(d, key, rec) ==
    IF DictHas(d, key)
    THEN [d EXCEPT ![DictIndex(d, key)].rec = rec]
    ELSE Append(d, [key |-> key, rec |-> rec])

\* del self.data[key]
DictDel(d, key) ==
    LET i == DictIndex(d, key) IN
    SubSeq(d, 1, i - 1) \o SubSeq(d, i + 1, Len(d))

\* the place of the object a reference names
Self(st, place) ==
    IF place.in = "caller" /\ st.r.kind = "stored"
    THEN PlaceBook(st.r.key) ELSE place

\* the object at a place
Get(st, place) ==
    LET p == Self(st, place) IN
    IF p.in = "book" THEN DictGet(st.data, p.key) ELSE st.r.rec

\* a method of the Record at `place` has run and left ro
OnRecord(st, place, ro) ==
    LET p == Self(st, place) IN
    [data |-> IF p.in = "book" THEN DictSet(st.data, p.key, ro.rec) ELSE st.data,
     r |-> IF p.in = "book" THEN st.r ELSE Loose(ro.rec),
     exc |-> ro.exc, msg |-> ro.msg, ret |-> ro.ret]

\* The entry under `key` is about to be replaced or deleted: the object
\* lives on if the caller's r names it.
Detached(st, key) ==
    IF st.r.kind = "stored" /\ st.r.key = key
    THEN Loose(DictGet(st.data, key)) ELSE st.r

\* add_record keyed by the name as written
BookAddRecordRawKey(st, record) ==
    IF record = "r" /\ st.r.kind # "unset"
    THEN LET rec == Get(st, PlaceCaller)
             key == rec.name
         IN  Return(State(DictSet(st.data, key, rec), Stored(key)), RetNone)
    ELSE Raise(st, "ValueError", "Invalid record format.")

\* record is "r", the caller's Record, or "str", an argument that is no Record
BookAddRecord(st, record) ==
    IF record = "r" /\ st.r.kind # "unset"
    THEN LET rec == Get(st, PlaceCaller)
             key == StrLower(rec.name)
         IN  Return(State(DictSet(st.data, key, rec), Stored(key)), RetNone)
    ELSE Raise(st, "ValueError", "Invalid record format.")

\* delete that looks the name up as written
BookDeleteExactCase(st, name) ==
    IF DictHas(st.data, name)
    THEN Return(State(DictDel(st.data, name), Detached(st, name)), RetNone)
    ELSE Raise(st, "ValueError", "Record not found in the address book.")

BookDelete(st, name) ==
    LET name_lower == StrLower(name) IN
    IF DictHas(st.data, name_lower)
    THEN Return(State(DictDel(st.data, name_lower), Detached(st, name_lower)),
                RetNone)
    ELSE Raise(st, "ValueError", "Record not found in the address book.")

\* find that looks the name up as written
BookFindExactCase(st, name) ==
    IF DictHas(st.data, name)
    THEN Return(st, RetRecord(PlaceBook(name)))
    ELSE Raise(st, "ValueError", "Record not found in the address book.")

BookFind(st, name) ==
    LET name_lower == StrLower(name) IN
    IF DictHas(st.data, name_lower)
    THEN Return(st, RetRecord(PlaceBook(name_lower)))
    ELSE Raise(st, "ValueError", "Record not found in the address book.")

RECURSIVE BirthdayScan(_, _)
\* the for loop of get_birthdays_per_week over self.data.values()
BirthdayScan(d, next_week) ==
    IF Len(d) = 0 THEN <<>>
    ELSE LET record == d[1].rec
             rest == BirthdayScan(Tail(d), next_week)
         IN  IF record.birthday # None
                /\ Ordinal(Strptime(record.birthday)) <= next_week
             THEN <<RecordStr(record)>> \o rest
             ELSE rest

\* today is datetime.now().date(); next_week is today + timedelta(days=7)
BookGetBirthdaysPerWeek(st, today) ==
    LET next_week == Ordinal(today) + 7 IN
    Return(st, RetList(BirthdayScan(st.data, next_week)))

(***************************************************************************)
(* Command handlers, each wrapped by input_error.                          *)
(***************************************************************************)
\* the decorator: an exception of the wrapped function becomes its reply
InputError(o) ==
    IF o.exc = NoExc THEN o
    ELSE IF o.exc = "ValueError"
         THEN Return(StateOf(o), RetText("Invalid input or contact not found."))
    ELSE IF o.exc = "IndexError"
         THEN Return(StateOf(o), RetText("Enter valid input."))
    ELSE IF o.exc = "KeyError"
         THEN Return(StateOf(o), RetText("Contact not found."))
    ELSE Return(StateOf(o),
                [kind |-> "fstring", head |-> "An error occurred: ",
                 msg |-> o.msg, tail |-> ""])

\* add_contact that stores the record before it adds the phone
add_contact_stores_first(st, args) ==
    IF Len(args) # 2 THEN Raise(st, "IndexError", "")
    ELSE LET name == args[1]
             phone == args[2]
             key == StrLower(name)
             s1 == State(DictSet(st.data, key, NewRecord(name)), Detached(st, key))
             o2 == RecordAddPhone(PlaceBook(key), NewRecord(name), FreshPhone(phone))
         IN  IF o2.exc # NoExc THEN Raise(s1, o2.exc, o2.msg)
             ELSE Return(State(DictSet(s1.data, key, o2.rec), s1.r),
                         RetText("Contact added."))

\* add_contact that adds the phone to the record the book already has
add_contact_keeps_existing(st, args) ==
    IF Len(args) # 2 THEN Raise(st, "IndexError", "")
    ELSE LET name == args[1]
             phone == args[2]
             key == StrLower(name)
             old == IF DictHas(st.data, key)
                    THEN DictGet(st.data, key) ELSE NewRecord(name)
             o2 == RecordAddPhone(PlaceBook(key), old, FreshPhone(phone))
         IN  IF o2.exc # NoExc THEN Raise(st, o2.exc, o2.msg)
             ELSE Return(State(DictSet(st.data, key, o2.rec), st.r),
                         RetText("Contact added."))

\* record is local to the handler: when add_phone raises, no one holds it
add_contact(st, args) ==
    IF Len(args) # 2 THEN Raise(st, "IndexError", "")
    ELSE LET name == args[1]
             phone == args[2]
             o2 == RecordAddPhone(Nowhere, NewRecord(name), FreshPhone(phone))
         IN  IF o2.exc # NoExc THEN Raise(st, o2.exc, o2.msg)
             ELSE LET key == StrLower(o2.rec.name) IN
                  Return(State(DictSet(st.data, key, o2.rec), Detached(st, key)),
                         RetText("Contact added."))

change_contact(st, args) ==
    IF Len(args) # 2 THEN Raise(st, "IndexError", "")
    ELSE LET name == args[1]
             phone == args[2]
             o1 == BookFind(st, name)
         IN  IF o1.exc # NoExc THEN o1
             ELSE LET o2 == OnRecord(st, o1.ret.place,
                                 RecordEditPhone(o1.ret.place,
                                                 Get(st, o1.ret.place),
                                                 FreshPhone(phone),
                                                 FreshPhone(args[2])))
                  IN  IF o2.exc # NoExc THEN o2
                      ELSE Return(StateOf(o2), RetText("Contact updated."))

show_phone(st, args) ==
    IF Len(args) # 1 THEN Raise(st, "IndexError", "")
    ELSE BookFind(st, args[1])

add_birthday(st, args) ==
    IF Len(args) # 2 THEN Raise(st, "IndexError", "")
    ELSE LET name == args[1]
             birthday == args[2]
             o1 == BookFind(st, name)
         IN  IF o1.exc # NoExc THEN o1
             ELSE LET o2 == OnRecord(st, o1.ret.place,
                                 RecordAddBirthday(o1.ret.place,
                                                   Get(st, o1.ret.place),
                                                   BirthdayObj(birthday)))
                  IN  IF o2.exc # NoExc THEN o2
                      ELSE Return(StateOf(o2),
                                  RetText("Birthday added to the contact."))

show_birthday(st, args) ==
    IF Len(args) # 1 THEN Raise(st, "IndexError", "")
    ELSE LET o1 == BookFind(st, args[1]) IN
         IF o1.exc # NoExc THEN o1
         ELSE IF Get(st, o1.ret.place).birthday # None
              THEN Return(st, RetValue(Get(st, o1.ret.place).birthday))
              ELSE Return(st, RetText("Birthday not found."))

\* birthdays(book) is not wrapped; "\n".join(list) is kept as the list
birthdays(st, today) ==
    LET upcoming_birthdays == BookGetBirthdaysPerWeek(st, today).ret.items IN
    IF Len(upcoming_birthdays) = 0
    THEN Return(st, RetText("No upcoming birthdays in the next week."))
    ELSE Return(st, [kind |-> "joined", sep |-> "\n",
                     items |-> upcoming_birthdays])

\* main() calls show_all(book); the module defines no show_all, so the
\* lookup of the name raises NameError
show_all(st) == Raise(st, "NameError", "name 'show_all' is not defined")

(***************************************************************************)
(* main(): one pass of the while loop, from input() to print().            *)
(***************************************************************************)
IsSpace(c) == c = " "

RECURSIVE SplitFrom(_, _, _)
SplitFrom(s, i, word) ==
    IF i > Len(s) THEN (IF word = <<>> THEN <<>> ELSE <<word>>)
    ELSE IF IsSpace(s[i])
         THEN (IF word = <<>> THEN <<>> ELSE <<word>>) \o SplitFrom(s, i + 1, <<>>)
         ELSE SplitFrom(s, i + 1, Append(word, s[i]))

\* str.split(): the words between runs of whitespace
Split(s) == SplitFrom(s, 1, <<>>)

RECURSIVE Strip(_)
\* str.strip()
Strip(s) ==
    IF Len(s) = 0 THEN s
    ELSE IF IsSpace(s[1]) THEN Strip(Tail(s))
    ELSE IF IsSpace(s[Len(s)]) THEN Strip(SubSeq(s, 1, Len(s) - 1))
    ELSE s

CmdClose == <<"c", "l", "o", "s", "e">>
CmdExit == <<"e", "x", "i", "t">>
CmdHello == <<"h", "e", "l", "l", "o">>
CmdAdd == <<"a", "d", "d">>
CmdChange == <<"c", "h", "a", "n", "g", "e">>
CmdPhone == <<"p", "h", "o", "n", "e">>
CmdAll == <<"a", "l", "l">>
CmdAddBirthday == <<"a", "d", "d", "-", "b", "i", "r", "t", "h", "d", "a", "y">>
CmdShowBirthday == <<"s", "h", "o", "w", "-", "b", "i", "r", "t", "h", "d", "a", "y">>
CmdBirthdays == <<"b", "i", "r", "t", "h", "d", "a", "y", "s">>

\* cmd, *args = user_input.split() raises ValueError on no words at all
parse_input(st, user_input) ==
    LET words == Split(user_input) IN
    IF Len(words) = 0
    THEN Raise(st, "ValueError",
               "not enough values to unpack (expected at least 1, got 0)")
    ELSE Return(st, [kind |-> "parsed",
                     cmd |-> StrLower(Strip(words[1])),
                     args |-> Tail(words)])

\* str(x) as print(x) takes it
PyStr(o) ==
    IF o.ret.kind = "record" THEN RecordStr(Get(StateOf(o), o.ret.place))
    ELSE IF o.ret.kind = "value" THEN [kind |-> "str", value |-> o.ret.value]
    ELSE o.ret

\* what one statement of the loop body leaves: the state, the exception
\* raised, the values printed and whether `break` was reached
Printed(o, brk) ==
    [data |-> o.data, r |-> o.r, exc |-> o.exc, msg |-> o.msg,
     printed |-> IF o.exc = NoExc THEN <<PyStr(o)>> ELSE <<>>,
     brk |-> brk]

\* the body of the try statement
MainBody(st, user_input, today) ==
    LET p == parse_input(st, user_input) IN
    IF p.exc # NoExc THEN Printed(p, FALSE)
    ELSE LET command == p.ret.cmd
             args == p.ret.args
         IN  IF command \in {CmdClose, CmdExit}
             THEN Printed(Return(st, RetText("Good bye!")), TRUE)
             ELSE IF command = CmdHello
             THEN Printed(Return(st, RetText("How can I help you?")), FALSE)
             ELSE IF command = CmdAdd
             THEN Printed(InputError(add_contact(st, args)), FALSE)
             ELSE IF command = CmdChange
             THEN Printed(InputError(change_contact(st, args)), FALSE)
             ELSE IF command = CmdPhone
             THEN Printed(InputError(show_phone(st, args)), FALSE)
             ELSE IF command = CmdAll
             THEN Printed(show_all(st), FALSE)
             ELSE IF command = CmdAddBirthday
             THEN Printed(InputError(add_birthday(st, args)), FALSE)
             ELSE IF command = CmdShowBirthday
             THEN Printed(InputError(show_birthday(st, args)), FALSE)
             ELSE IF command = CmdBirthdays
             THEN Printed(birthdays(st, today), FALSE)
             ELSE Printed(Return(st, RetText("Invalid command.")), FALSE)

\* a handler for ValueError alone
CaughtValueErrorOnly(exc) == exc = "ValueError"

\* the classes `except Exception` catches
CaughtByMain(exc) == exc \in {"ValueError", "IndexError", "KeyError", "NameError"}

\* try: body; except Exception as e: print(...)
MainIteration(st, user_input, today) ==
    LET b == MainBody(st, user_input, today) IN
    IF b.exc = NoExc
    THEN [data |-> b.data, r |-> b.r,
          printed |-> b.printed,
          pc |-> IF b.brk THEN "done" ELSE "input"]
    ELSE IF CaughtByMain(b.exc)
    THEN [data |-> b.data, r |-> b.r,
          printed |-> b.printed \o
                      <<[kind |-> "fstring", head |-> "Error: ",
                         msg |-> b.msg, tail |-> ". Please try again."]>>,
          pc |-> "input"]
    ELSE [data |-> b.data, r |-> b.r,
          printed |-> b.printed, pc |-> "crashed"]

(***************************************************************************)
(* The values the model draws its inputs from.                             *)
(***************************************************************************)
NameJo == <<"j", "o">>
NameJoCap == <<"J", "o">>
NameJoUpper == <<"J", "O">>
NameAl == <<"a", "l">>

\* names to look up, and names Records are made with
NameValues == {NameJo, NameJoCap, NameJoUpper, NameAl}

RecordNames == {NameJoCap, NameJoUpper, NameAl}

PhoneA == <<"1", "2", "3", "4", "5", "6", "7", "8", "9", "0">>
PhoneB == <<"0", "9", "8", "7", "6", "5", "4", "3", "2", "1">>
PhoneShort == <<"1", "2", "3", "4", "5">>
PhoneSuperscript == <<"1", "2", "3", "4", "5", "6", "7", "8", "9", SuperscriptTwo>>

BirthdayNewYear == <<"0", "1", ".", "0", "1", ".", "2", "0", "2", "4">>
BirthdayNoSuchDay == <<"3", "1", ".", "0", "4", ".", "2", "0", "0", "0">>

BirthdayValues == {BirthdayNewYear, BirthdayNoSuchDay}

\* the dates datetime.now() falls on
Todays == {[year |-> 2023, month |-> 12, day |-> 20],
           [year |-> 2023, month |-> 12, day |-> 28],
           [year |-> 2024, month |-> 1, day |-> 2]}

RECURSIVE PhonesInBook(_)
PhonesInBook(d) ==
    IF Len(d) = 0 THEN 0 ELSE Len(d[1].rec.phones) + PhonesInBook(Tail(d))

\* the Phone objects the lists of all records hold
PhonesHeld(o) ==
    PhonesInBook(o.data) + (IF o.r.kind = "loose" THEN Len(o.r.rec.phones) ELSE 0)

WithinBounds(o) == PhonesHeld(o) <= MaxPhoneObjs

(***************************************************************************)
(* Spec: one AddressBook and the Record objects made so far, with the      *)
(* methods and the command handlers called in any order on any arguments.  *)
(***************************************************************************)
Cur == State(data, r)

\* What the caller sees of its last call: the call and its arguments, the
\* number of entries the call found in the book, and what it raised or
\* returned.
NoResult ==
    [op |-> "none", place |-> Nowhere, args |-> <<>>, today |-> NoDate,
     found |-> 0, exc |-> NoExc, ret |-> RetNone]

Res(op, place, args, today, o) ==
    [op |-> op, place |-> place, args |-> args, today |-> today,
     found |-> Len(data), exc |-> o.exc, ret |-> o.ret]

\* the call leaves o behind
Leaves(o) ==
    /\ WithinBounds(o)
    /\ data' = o.data
    /\ r' = o.r

Init ==
    /\ data = <<>>
    /\ r = Unset
    /\ result = NoResult
    /\ pc = "idle"
    /\ line = <<>>
    /\ printed = <<>>

\* the Record objects the caller can reach: its r, and the entries
Places ==
    {Self(Cur, PlaceCaller) : x \in IF r.kind = "unset" THEN {} ELSE {1}}
        \cup {PlaceBook(data[i].key) : i \in 1..Len(data)}

\* the Phone objects some list holds
HeldPhones ==
    UNION {{HeldPhone(p, i, Get(Cur, p).phones[i]) :
                i \in 1..Len(Get(Cur, p).phones)} : p \in Places}

\* arguments of add_phone: Phone objects just made, and a bare str
AddPhoneArgs ==
    {FreshPhone(v) : v \in {PhoneA, PhoneShort}} \cup {BareStr(PhoneA)}

\* arguments that name a phone to look for: held objects, and an equal
\* Phone just made
OldPhoneArgs == HeldPhones \cup {FreshPhone(PhoneA)}

\* replacements edit_phone is given
NewPhoneArgs == {FreshPhone(PhoneA), FreshPhone(PhoneShort)}

BirthdayArgs ==
    {BirthdayObj(v) : v \in BirthdayValues} \cup {BareStr(BirthdayNewYear)}

\* argument lists of the handlers: no, one, two and three words
NamePhoneArgs ==
    {<<>>, <<NameJo, PhoneA, PhoneB>>}
        \cup {<<n, x>> : n \in RecordNames, x \in {PhoneA, PhoneShort}}

ChangeArgs ==
    {<<NameJo>>} \cup {<<n, PhoneA>> : n \in NameValues}
                 \cup {<<n, PhoneA, PhoneB>> : n \in NameValues}

NameArgs == {<<>>, <<NameJo, PhoneA>>} \cup {<<n>> : n \in NameValues}

NameBirthdayArgs ==
    {<<NameJo>>} \cup {<<n, x>> : n \in NameValues, x \in BirthdayValues}

\* the call op leaves o behind
Call(op, place, args, today, o) ==
    /\ pc = "idle"
    /\ Leaves(o)
    /\ result' = Res(op, place, args, today, o)
    /\ pc' = "returned"
    /\ UNCHANGED <<line, printed>>

\* the caller goes on to its next call: what the last one returned is dropped
Proceed ==
    /\ pc = "returned"
    /\ pc' = "idle"
    /\ result' = NoResult
    /\ UNCHANGED <<data, r, line, printed>>

\* r = Record(name)
CreateRecord(name) ==
    Call("Record", PlaceCaller, <<name>>, NoDate,
         Return(State(data, Loose(NewRecord(name))), RetNone))

AddPhone(place, phone) ==
    Call("add_phone", place, <<>>, NoDate,
         OnRecord(Cur, place, RecordAddPhone(place, Get(Cur, place), phone)))

AddBirthday(place, birthday) ==
    Call("add_birthday", place, <<>>, NoDate,
         OnRecord(Cur, place, RecordAddBirthday(place, Get(Cur, place), birthday)))

RemovePhone(place, phone) ==
    Call("remove_phone", place, <<>>, NoDate,
         OnRecord(Cur, place, RecordRemovePhone(place, Get(Cur, place), phone)))

EditPhone(place, old_phone, new_phone) ==
    Call("edit_phone", place, <<>>, NoDate,
         OnRecord(Cur, place,
                  RecordEditPhone(place, Get(Cur, place), old_phone, new_phone)))

FindPhone(place, phone) ==
    Call("find_phone", place, <<>>, NoDate,
         OnRecord(Cur, place, RecordFindPhone(place, Get(Cur, place), phone)))

AddRecord(record) ==
    Call("add_record", PlaceCaller, <<record>>, NoDate,
         BookAddRecord(Cur, record))

Delete(name) ==
    Call("delete", Nowhere, <<name>>, NoDate, BookDelete(Cur, name))

Find(name) ==
    Call("find", Nowhere, <<name>>, NoDate, BookFind(Cur, name))

GetBirthdaysPerWeek(today) ==
    Call("get_birthdays_per_week", Nowhere, <<>>, today,
         BookGetBirthdaysPerWeek(Cur, today))

HandleAdd(args) ==
    Call("add", Nowhere, args, NoDate, InputError(add_contact(Cur, args)))

HandleChange(args) ==
    Call("change", Nowhere, args, NoDate, InputError(change_contact(Cur, args)))

HandlePhone(args) ==
    Call("phone", Nowhere, args, NoDate, InputError(show_phone(Cur, args)))

HandleAddBirthday(args) ==
    Call("add-birthday", Nowhere, args, NoDate,
         InputError(add_birthday(Cur, args)))

HandleShowBirthday(args) ==
    Call("show-birthday", Nowhere, args, NoDate,
         InputError(show_birthday(Cur, args)))

HandleBirthdays(today) ==
    Call("birthdays", Nowhere, <<>>, today, birthdays(Cur, today))

Next ==
    \/ \E name \in RecordNames : CreateRecord(name)
    \/ \E place \in Places, phone \in AddPhoneArgs : AddPhone(place, phone)
    \/ \E place \in Places, birthday \in BirthdayArgs :
           AddBirthday(place, birthday)
    \/ \E place \in Places, phone \in OldPhoneArgs : RemovePhone(place, phone)
    \/ \E place \in Places, old_phone \in OldPhoneArgs,
          new_phone \in NewPhoneArgs :
           EditPhone(place, old_phone, new_phone)
    \/ \E place \in Places, phone \in OldPhoneArgs : FindPhone(place, phone)
    \/ \E record \in {"r", "str"} : AddRecord(record)
    \/ \E name \in NameValues : Delete(name)
    \/ \E name \in NameValues : Find(name)
    \/ \E today \in Todays : GetBirthdaysPerWeek(today)
    \/ \E args \in NamePhoneArgs : HandleAdd(args)
    \/ \E args \in ChangeArgs : HandleChange(args)
    \/ \E args \in NameArgs : HandlePhone(args)
    \/ \E args \in NameBirthdayArgs : HandleAddBirthday(args)
    \/ \E args \in NameArgs : HandleShowBirthday(args)
    \/ \E today \in Todays : HandleBirthdays(today)
    \/ Proceed

Spec == Init /\ [][Next]_vars

(***************************************************************************)
(* MainSpec: main(), reading one line after another.                       *)
(***************************************************************************)
RECURSIVE Words(_)
\* the words of a line, one blank between them
Words(ws) ==
    IF Len(ws) = 0 THEN <<>>
    ELSE IF Len(ws) = 1 THEN ws[1]
    ELSE ws[1] \o <<" ">> \o Words(Tail(ws))

CmdHelloUpper == <<"H", "E", "L", "L", "O">>
CmdCloseUpper == <<"C", "L", "O", "S", "E">>
CmdExitCap == <<"E", "x", "i", "t">>
CmdAddCap == <<"A", "d", "d">>
CmdUnknown == <<"h", "e", "l", "p">>

WordLists ==
    {<<c>> : c \in {CmdHello, CmdHelloUpper, CmdClose, CmdCloseUpper, CmdExit,
                    CmdExitCap, CmdAll, CmdBirthdays, CmdUnknown, CmdAdd,
                    CmdPhone}}
    \cup {<<c, n, p>> : c \in {CmdAdd, CmdAddCap},
                        n \in {NameJoCap, NameJoUpper, NameAl},
                        p \in {PhoneA, PhoneShort}}
    \cup {<<CmdChange, NameJo, PhoneA>>, <<CmdChange, NameJo, PhoneA, PhoneB>>,
          <<CmdAdd, NameAl, PhoneSuperscript>>}
    \cup {<<c, n>> : c \in {CmdPhone, CmdShowBirthday, CmdExit, CmdAll},
                     n \in {NameJo, NameAl}}
    \cup {<<CmdAddBirthday, NameJo, b>> : b \in BirthdayValues}

\* the lines input() returns: the empty line, blank lines, and lines of
\* words with and without blanks around them
Lines ==
    {<<>>, <<" ">>, <<" ", " ">>}
    \cup {Words(ws) : ws \in WordLists}
    \cup {<<" ">> \o Words(ws) \o <<" ", " ">> :
              ws \in {<<CmdClose>>, <<CmdAdd, NameJo, PhoneA>>}}

MainInit ==
    /\ data = <<>>
    /\ r = Unset
    /\ result = NoResult
    /\ pc = "input"
    /\ line = <<>>
    /\ printed = <<RetText("Welcome to the assistant bot!")>>

\* datetime.now() is read by the birthdays command alone
ClockReads(user_input) ==
    LET p == parse_input(Cur, user_input) IN
    IF p.exc = NoExc /\ p.ret.cmd = CmdBirthdays THEN Todays ELSE {NoDate}

MainLoop ==
    /\ pc = "input"
    /\ \E user_input \in Lines :
       \E today \in ClockReads(user_input) :
           LET it == MainIteration(Cur, user_input, today) IN
           /\ Leaves(it)
           /\ line' = user_input
           /\ printed' = it.printed
           /\ pc' = it.pc
    /\ UNCHANGED result

MainNext == MainLoop

MainSpec == MainInit /\ [][MainNext]_vars

(***************************************************************************)
(* Properties.                                                             *)
(***************************************************************************)
Returned == pc = "returned"

\* a step that is a call, from the caller's state to the state it returns to
IsCall == pc = "idle" /\ pc' = "returned"

\* the forms of one character that differ by letter case only
CaseForms(c) ==
    {c} \cup {UpperAlpha[i] : i \in {j \in DOMAIN LowerAlpha : LowerAlpha[j] = c}}
        \cup {LowerAlpha[i] : i \in {j \in DOMAIN UpperAlpha : UpperAlpha[j] = c}}

\* the strings equal to s up to letter case
CaseVariants(s) ==
    {v \in [1..Len(s) -> UNION {CaseForms(s[i]) : i \in 1..Len(s)}] :
        \A i \in 1..Len(s) : v[i] \in CaseForms(s[i])}

HasUpper(s) == \E i \in 1..Len(s) : \E j \in DOMAIN UpperAlpha : UpperAlpha[j] = s[i]

ErrorReplies ==
    {"Invalid input or contact not found.", "Enter valid input.",
     "Contact not found."}

\* the call failed: it raised, or the handler replied with an error
Failed(res) ==
    \/ res.exc # NoExc
    \/ res.ret.kind = "text" /\ res.ret.text \in ErrorReplies

\* C1: after add_record(r) has returned, find(n) returns r itself, the
\* entry r now names, for every n equal to r's name up to letter case.
C1_AddThenFindAnyCase ==
    (Returned /\ result.op = "add_record" /\ result.exc = NoExc) =>
        /\ r.kind = "stored"
        /\ \A n \in CaseVariants(Get(Cur, PlaceCaller).name) :
               LET f == BookFind(Cur, n) IN
               /\ f.exc = NoExc
               /\ f.ret = RetRecord(PlaceBook(r.key))

C1_Witness ==
    /\ Returned
    /\ result.op = "add_record"
    /\ result.exc = NoExc
    /\ Len(data) = 2
    /\ HasUpper(Get(Cur, PlaceCaller).name)
    /\ Cardinality(CaseVariants(Get(Cur, PlaceCaller).name)) = 4

\* C2: in every reachable state each key of the book is the lowercased name
\* of the record stored under it, and no two entries have the same key.
C2_KeyIsLowercasedName ==
    /\ \A i \in 1..Len(data) : data[i].key = StrLower(data[i].rec.name)
    /\ \A i, j \in 1..Len(data) : data[i].key = data[j].key => i = j

C2_Witness ==
    /\ Len(data) = 2
    /\ \E i \in 1..Len(data) : data[i].rec.name # data[i].key
    /\ Returned
    /\ result.op = "add"
    /\ result.found = 1

EntriesUnder(d, key) == {i \in 1..Len(d) : d[i].key = key}

\* C3: add_record(r) of a Record no entry holds, whose lowercased name is a
\* key of the book already, raises nothing and leaves one entry under that
\* key, which is r: find returns r's phones and birthday, in any letter
\* case.  The add command with a valid phone on a name already stored
\* replies "Contact added." and leaves under the key a Record that is not
\* the one stored before, with the new phone alone and no birthday.
C3_SecondRecordReplacesFirst ==
    [][/\ (IsCall /\ result'.op = "add_record" /\ result'.args = <<"r">>
             /\ r.kind = "loose" /\ DictHas(data, StrLower(r.rec.name))) =>
           LET key == StrLower(r.rec.name) IN
           /\ result'.exc = NoExc
           /\ Cardinality(EntriesUnder(data', key)) = 1
           /\ Len(data') = Len(data)
           /\ r' = Stored(key)
           /\ \A n \in CaseVariants(r.rec.name) :
                  LET f == BookFind(State(data', r'), n) IN
                  /\ f.exc = NoExc
                  /\ Get(State(data', r'), f.ret.place) = r.rec
       /\ (IsCall /\ result'.op = "add" /\ Len(result'.args) = 2
             /\ PhoneValidateFormat(result'.args[2])
             /\ DictHas(data, StrLower(result'.args[1]))) =>
           LET key == StrLower(result'.args[1]) IN
           /\ result'.ret = RetText("Contact added.")
           /\ Cardinality(EntriesUnder(data', key)) = 1
           /\ Len(data') = Len(data)
           /\ DictGet(data', key) =
                  [name |-> result'.args[1], phones |-> <<result'.args[2]>>,
                   birthday |-> None]
           /\ r' # Stored(key)
           /\ (r = Stored(key) => r' = Loose(DictGet(data, key)))
      ]_vars

C3_Witness ==
    /\ Returned
    /\ result.op = "add"
    /\ result.ret = RetText("Contact added.")
    /\ result.found = Len(data)
    /\ r.kind = "loose"
    /\ StrLower(r.rec.name) = StrLower(result.args[1])
    /\ r.rec.name # result.args[1]
    /\ r.rec.birthday # None

FailingOps ==
    {"add_phone", "add_birthday", "remove_phone", "edit_phone", "find_phone",
     "add_record", "delete", "find",
     "add", "change", "phone", "add-birthday", "show-birthday"}

\* C4: a call of a Record method, of add_record, delete or find, or of a
\* command handler, that fails leaves the book's entries and every Record
\* (name, phones, birthday) as the call found them.
C4_FailureLeavesStateUnchanged ==
    [][(IsCall /\ result'.op \in FailingOps /\ Failed(result')) =>
           (data' = data /\ r' = r)]_vars

C4_Witness ==
    /\ Returned
    /\ result.op = "add"
    /\ Len(result.args) = 2
    /\ result.ret = RetText("Invalid input or contact not found.")
    /\ DictHas(data, StrLower(result.args[1]))
    /\ DictGet(data, StrLower(result.args[1])).birthday # None

\* C5: for a name n stored with the phone p alone and a format-valid phone
\* q, the command `change n p q` replies "Contact updated." and the
\* contact's phone is q afterwards.
C5_ChangeReplacesPhone ==
    [][(/\ IsCall
        /\ result'.op = "change"
        /\ Len(result'.args) = 3
        /\ DictHas(data, StrLower(result'.args[1]))
        /\ DictGet(data, StrLower(result'.args[1])).phones = <<result'.args[2]>>
        /\ PhoneValidateFormat(result'.args[3])) =>
           /\ result'.ret = RetText("Contact updated.")
           /\ DictGet(data', StrLower(result'.args[1])).phones = <<result'.args[3]>>
      ]_vars

\* C6: every element of every Record's phones list is a string of exactly
\* 10 characters, each a decimal digit 0-9.
C6_PhonesAreTenDigits ==
    \A p \in Places :
        \A i \in 1..Len(Get(Cur, p).phones) :
            LET v == Get(Cur, p).phones[i] IN
            Len(v) = PhoneLen /\ AllAsciiDigits(v)

Without(d, key) == SelectSeq(d, LAMBDA e : e.key # key)

\* C7: delete(name) raises the not-found error when no entry is under the
\* lowercased name; otherwise it removes that entry and no other, after
\* which find raises not-found for the name in any letter case.  find
\* raises not-found exactly when no entry is under the lowercased name, and
\* a key comes into the book only by an add of a record of that name.
C7_DeleteRemovesOneEntry ==
    [][/\ (IsCall /\ result'.op = "delete") =>
           LET key == StrLower(result'.args[1]) IN
           IF DictHas(data, key)
           THEN /\ result'.exc = NoExc
                /\ data' = Without(data, key)
                /\ Len(data') = Len(data) - 1
                /\ \A n \in CaseVariants(result'.args[1]) :
                       BookFind(State(data', r'), n).exc = "ValueError"
           ELSE /\ result'.exc = "ValueError"
                /\ data' = data
       /\ (IsCall /\ result'.op = "find") =>
           (result'.exc = "ValueError"
                <=> ~DictHas(data, StrLower(result'.args[1])))
       /\ \A n \in NameValues :
              (~DictHas(data, StrLower(n)) /\ DictHas(data', StrLower(n))) =>
                  /\ result'.op \in {"add_record", "add"}
                  /\ StrLower(DictGet(data', StrLower(n)).name) = StrLower(n)
      ]_vars

C7_Witness ==
    /\ Returned
    /\ result.op = "delete"
    /\ result.exc = NoExc
    /\ HasUpper(result.args[1])
    /\ Len(data) = 1
    /\ result.found = 2

\* the stored birthday, as a date, is in [today, today + 7 days]
InWindow(birthday, today) ==
    /\ Ordinal(today) <= Ordinal(Strptime(birthday))
    /\ Ordinal(Strptime(birthday)) <= Ordinal(today) + 7

\* C8: the summary of an entry is in the result of the upcoming-birthdays
\* query only if the entry has a birthday and its date is in the window
\* [today, today + 7 days].
C8_OnlyBirthdaysInWindow ==
    (Returned /\ result.op = "get_birthdays_per_week") =>
        \A i \in 1..Len(data) :
            (\E j \in 1..Len(result.ret.items) :
                 result.ret.items[j] = RecordStr(data[i].rec)) =>
                /\ data[i].rec.birthday # None
                /\ InWindow(data[i].rec.birthday, result.today)

IsCommand(user_input, cmds) ==
    /\ Len(Split(user_input)) > 0
    /\ StrLower(Split(user_input)[1]) \in cmds

IsErrorMessage(p) == "head" \in DOMAIN p /\ p.head = "Error: "

\* C9: the `all` command prints the rendering of every stored record and
\* prints no error message.
C9_AllRendersEveryRecord ==
    (pc = "input" /\ IsCommand(line, {CmdAll})) =>
        /\ \A i \in 1..Len(data) :
               \E j \in 1..Len(printed) : printed[j] = RecordStr(data[i].rec)
        /\ \A j \in 1..Len(printed) : ~IsErrorMessage(printed[j])

\* C10: every step of main() reads a line while the loop runs; a line that
\* is not close/exit prints one response and leaves the loop running; a
\* close or exit line, in any letter case, prints "Good bye!" and ends the
\* loop; nothing else ends it.
C10_LoopEndsOnlyOnExit ==
    [][/\ pc = "input"
       /\ Len(printed') = 1
       /\ IF IsCommand(line', {CmdClose, CmdExit})
          THEN pc' = "done" /\ printed' = <<RetText("Good bye!")>>
          ELSE pc' = "input"
      ]_vars

C10_Witness ==
    /\ pc = "input"
    /\ Len(Split(line)) = 0
    /\ Len(printed) = 1
    /\ IsErrorMessage(printed[1])
    /\ Len(data) = 2

====
